---- MODULE Spec2Model ----
(***************************************************************************)
(* Model of the plugin registry CModelsManager                             *)
(* (src/SimulatorCore/ModelsManager.cpp).                                  *)
(*                                                                         *)
(* The registry keeps a list of model directories, two caches of plugin    *)
(* descriptors produced by scanning the active directories, and two maps   *)
(* from live plugin instances to the library handle each was created from. *)
(* The operating system loader and the plugin libraries are the            *)
(* environment: what a directory holds and how a library behaves when it   *)
(* is loaded are inputs of the operations.                                 *)
(***************************************************************************)
EXTENDS Integers, Sequences, FiniteSets, TLC

\* ------------------------------------------------------------------ bounds
\* calls the host makes in one run
MaxCalls == 4
\* plugin instances alive at the same time (units and solvers together)
MaxLive == 2

\* solver types probed, SOLVERS_TYPES_NUMBER: the factory names
\* CREATE_SOLVER_FUN_NAMES[1..SOLVERS_TYPES_NUMBER] (the value is set outside
\* the sources at hand)
SOLVERS_TYPES_NUMBER == 2

\* ------------------------------------------------------- program constants
\* nullptr
NullPtr == 0

\* ------------------------------------------------------------- input sets
\* directory paths the host passes to AddDir
Paths == {"A", "B"}
\* unique IDs the host asks for
ModelKeys == {"m1", "s1"}

\* -------------------------------------------------------- sequence helpers
Range(s) == {s[i] : i \in 1..Len(s)}

RECURSIVE SelectIdx(_, _, _)
\* the subsequence of s at the indices in keep, order kept
SelectIdx(s, keep, i) ==
    IF i > Len(s) THEN <<>>
    ELSE (IF i \in keep THEN <<s[i]>> ELSE <<>>) \o SelectIdx(s, keep, i + 1)

\* all arrangements of the elements of the sequence s
Arrangements(s) ==
    LET n == Len(s)
        bij == {f \in [1..n -> 1..n] : \A a, b \in 1..n : a # b => f[a] # f[b]}
    IN  {[i \in 1..n |-> s[f[i]]] : f \in bij}

\* ---------------------------------------------------------------- events
\* One low-level effect of an operation, in the order the code performs it:
\*   "list"   FilesList of resolved directory f
\*   "open"   LoadDyssolLibrary returned handle h for file f
\*   "close"  CloseDyssolLibrary(h)
\*   "new"    a factory returned instance p (created through handle h)
\*   "delete" delete p
\*   "record" m_loaded*[p] = h
\*   "erase"  m_loaded*.erase(p)
NoFile == [dir |-> <<>>, idx |-> 0]
Ev(e, h, p, f) == [e |-> e, h |-> h, p |-> p, f |-> f]

\* a handle the loader has not handed out among the open ones
NewHandle(open) == CHOOSE h \in 1..(Cardinality(open) + 1) : h \notin open
\* an address not occupied by a living instance
NewPtr(heap) == CHOOSE p \in 1..(Cardinality(heap) + 1) : p \notin heap

\* ------------------------------------------------- libraries (environment)
\* What one exported factory does when the registry calls it:
\*   sym   "none"       the library exports no such symbol
\*         "throwLogic" the factory throws a std::logic_error
\*         "throwOther" the factory throws an exception of another type
\*         "inst"       the factory returns a new instance
\*   verOK the instance's m_nCompilerVer equals COMPILER_VERSION
\*   getOK its metadata getters return (FALSE: one of them throws)
\*   id    GetUniqueID(),  type  GetType() (solvers)
NoFactory == [sym |-> "none", verOK |-> TRUE, getOK |-> TRUE, id |-> "", type |-> 0]
Throwing(how) == [sym |-> how, verOK |-> TRUE, getOK |-> TRUE, id |-> "", type |-> 0]
Inst(id, verOK, getOK, type) ==
    [sym |-> "inst", verOK |-> verOK, getOK |-> getOK, id |-> id, type |-> type]

\* A library file: whether the loader can load it, its unit factory and its
\* solver factories, one per solver type 1..SOLVERS_TYPES_NUMBER.
Lib(load, unit, solver) == [load |-> load, unit |-> unit, solver |-> solver]
NoSolvers == [t \in 1..SOLVERS_TYPES_NUMBER |-> NoFactory]
SolverAt(t, fac) == [NoSolvers EXCEPT ![t] = fac]

BadLib == Lib(FALSE, NoFactory, NoSolvers)
ForeignLib == Lib(TRUE, NoFactory, NoSolvers)
UnitLib(id) == Lib(TRUE, Inst(id, TRUE, TRUE, 0), NoSolvers)
SolverLib(id, t) == Lib(TRUE, NoFactory, SolverAt(t, Inst(id, TRUE, TRUE, t)))
OldAbiUnitLib(id) == Lib(TRUE, Inst(id, FALSE, TRUE, 0), NoSolvers)
\* a solver library whose first factory returns an instance built with another
\* compiler version and whose second factory returns a valid solver
MixedSolverLib(old, id) ==
    Lib(TRUE, NoFactory,
        [NoSolvers EXCEPT ![1] = Inst(old, FALSE, TRUE, 1), ![2] = Inst(id, TRUE, TRUE, 2)])
ThrowingLib == Lib(TRUE, Throwing("throwOther"), NoSolvers)
\* a library that exports a valid unit factory and a valid solver factory
UnitAndSolverLib(unit, solver) ==
    Lib(TRUE, Inst(unit, TRUE, TRUE, 0), SolverAt(1, Inst(solver, TRUE, TRUE, 1)))
\* a library that exports a valid solver factory for each of two types
TwoSolversLib(first, second) ==
    Lib(TRUE, NoFactory,
        [NoSolvers EXCEPT ![1] = Inst(first, TRUE, TRUE, 1), ![2] = Inst(second, TRUE, TRUE, 2)])

\* ------------------------------------------------------------ descriptors
\* SUnitDescriptor / SSolverDescriptor: the fields the registry itself reads
\* or writes (name, author, version and isDynamic are copied and never read).
\* solverType is 0 in a unit descriptor.
EmptyDescriptor ==
    [uniqueID |-> "", fileLocation |-> NoFile, dirKey |-> 0, position |-> 0,
     solverType |-> 0]

\* explicit operator bool of a descriptor: an empty descriptor is false
DescriptorIsSet(d) == d.uniqueID # ""

\* operator< of SModelDescriptor, the order std::sort uses
DescriptorLess(a, b) == a.position < b.position

\* The result of one probing step: the descriptor, the instances alive, the
\* effects so far, and whether an exception is propagating.
Probe(desc, heap, events, threw) ==
    [desc |-> desc, heap |-> heap, events |-> events, threw |-> threw]

\* TryGetUnitDescriptor without the test of m_nCompilerVer
TryGetUnitDescriptorAnyVersion(file, lib, h, heap) ==
    LET fac == lib.unit
        p == NewPtr(heap)
        made == <<Ev("new", h, p, file)>>
        gone == <<Ev("delete", h, p, file)>>
        filled == [EmptyDescriptor EXCEPT !.uniqueID = fac.id, !.fileLocation = file]
    IN  CASE fac.sym = "none" -> Probe(EmptyDescriptor, heap, <<>>, FALSE)
          [] fac.sym = "throwLogic" -> Probe(EmptyDescriptor, heap, <<>>, FALSE)
          [] fac.sym = "throwOther" -> Probe(EmptyDescriptor, heap, <<>>, TRUE)
          [] ~fac.getOK -> Probe(EmptyDescriptor, heap, made \o gone, FALSE)
          [] OTHER -> Probe(filled, heap, made \o gone, FALSE)

\* CModelsManager::TryGetUnitDescriptor(_pathToUnit, _library)
TryGetUnitDescriptor(file, lib, h, heap) ==
    LET fac == lib.unit
        p == NewPtr(heap)
        made == <<Ev("new", h, p, file)>>
        gone == <<Ev("delete", h, p, file)>>
        filled == [EmptyDescriptor EXCEPT !.uniqueID = fac.id, !.fileLocation = file]
    IN  CASE fac.sym = "none" -> Probe(EmptyDescriptor, heap, <<>>, FALSE)
          [] fac.sym = "throwLogic" -> Probe(EmptyDescriptor, heap, <<>>, FALSE)
          [] fac.sym = "throwOther" -> Probe(EmptyDescriptor, heap, <<>>, TRUE)
          [] ~fac.verOK -> Probe(EmptyDescriptor, heap, made \o gone, FALSE)
          [] ~fac.getOK -> Probe(EmptyDescriptor, heap, made \o gone, FALSE)
          [] OTHER -> Probe(filled, heap, made \o gone, FALSE)

\* One pass of the loop over the solver types in TryGetSolverDescriptor.
\* st = [desc, pSolver, bFound, heap, events, threw]
SolverSlot(file, lib, h, st, i) ==
    LET fac == lib.solver[i]
        p == NewPtr(st.heap)
        made == [st EXCEPT !.pSolver = p, !.heap = st.heap \cup {p},
                           !.events = st.events \o <<Ev("new", h, p, file)>>]
    IN  CASE fac.sym = "none" -> st
          [] fac.sym = "throwLogic" -> st
          [] fac.sym = "throwOther" -> [st EXCEPT !.threw = TRUE]
          [] ~fac.verOK -> made
          [] ~fac.getOK -> [made EXCEPT !.desc = EmptyDescriptor]
          [] OTHER ->
              [made EXCEPT !.bFound = TRUE,
                           !.desc = [EmptyDescriptor EXCEPT !.uniqueID = fac.id,
                                                            !.fileLocation = file,
                                                            !.solverType = fac.type]]

RECURSIVE SolverLoop(_, _, _, _, _)
SolverLoop(file, lib, h, st, i) ==
    IF i > SOLVERS_TYPES_NUMBER \/ st.bFound \/ st.threw THEN st
    ELSE SolverLoop(file, lib, h, SolverSlot(file, lib, h, st, i), i + 1)

\* The end of TryGetSolverDescriptor, "delete pSolver; return
\* solverDescriptor;", reached unless an exception left the loop.
DeletePSolver(file, h, st) ==
    IF st.threw THEN Probe(EmptyDescriptor, st.heap, st.events, TRUE)
    ELSE IF st.pSolver = NullPtr THEN Probe(st.desc, st.heap, st.events, FALSE)
    ELSE Probe(st.desc, st.heap \ {st.pSolver},
               st.events \o <<Ev("delete", h, st.pSolver, file)>>, FALSE)

\* CModelsManager::TryGetSolverDescriptor(_pathToSolver, _library)
TryGetSolverDescriptor(file, lib, h, heap) ==
    DeletePSolver(file, h,
        SolverLoop(file, lib, h,
                   [desc |-> EmptyDescriptor, pSolver |-> NullPtr, bFound |-> FALSE,
                    heap |-> heap, events |-> <<>>, threw |-> FALSE],
                   1))

\* ---------------------------------------------------------------- scanning
\* FileSystem::AbsolutePath(_dir) and
\* FileSystem::AbsolutePath(FileSystem::ExecutableDirPath() + L"/" + _dir)
AbsolutePath(path) == <<"abs", path>>
ExecutableRelativePath(path) == <<"exe", path>>

\* What a scan finds on disk for one directory path: the library files
\* FilesList returns under the path taken as absolute and under the path
\* taken relative to the executable, each a sequence of libraries.
World(abs, rel) == [abs |-> abs, rel |-> rel]

\* The state a scan threads through its loops:
\* the descriptors found, the handles open, the instances alive, the effects.
Scan(units, solvers, open, heap, events, threw) ==
    [units |-> units, solvers |-> solvers, open |-> open, heap |-> heap,
     events |-> events, threw |-> threw]

\* GetAllModelsInDir after TryGetSolverDescriptor returned s (or threw):
\* keep the solver descriptor if it is set, close the library.
AfterSolverProbe(st, file, h, events, s) ==
    IF s.threw THEN
        Scan(st.units, st.solvers, st.open \cup {h}, s.heap, events \o s.events, TRUE)
    ELSE IF DescriptorIsSet(s.desc) THEN
        Scan(st.units, Append(st.solvers, s.desc), st.open, s.heap,
             events \o s.events \o <<Ev("close", h, NullPtr, file)>>, FALSE)
    ELSE
        Scan(st.units, st.solvers, st.open, s.heap,
             events \o s.events \o <<Ev("close", h, NullPtr, file)>>, FALSE)

\* AfterUnitProbe that tries the library as a solver also when it gave a
\* unit descriptor
AfterUnitProbeAlsoSolver(st, file, lib, h, events, u) ==
    IF u.threw THEN
        Scan(st.units, st.solvers, st.open \cup {h}, u.heap, events \o u.events, TRUE)
    ELSE
        AfterSolverProbe([st EXCEPT !.units = IF DescriptorIsSet(u.desc)
                                              THEN Append(st.units, u.desc)
                                              ELSE st.units],
                         file, h, events \o u.events,
                         TryGetSolverDescriptor(file, lib, h, u.heap))

\* GetAllModelsInDir after TryGetUnitDescriptor returned u (or threw): keep
\* the unit descriptor if it is set, else try the library as a solver.
AfterUnitProbe(st, file, lib, h, events, u) ==
    IF u.threw THEN
        Scan(st.units, st.solvers, st.open \cup {h}, u.heap, events \o u.events, TRUE)
    ELSE IF DescriptorIsSet(u.desc) THEN
        Scan(Append(st.units, u.desc), st.solvers, st.open, u.heap,
             events \o u.events \o <<Ev("close", h, NullPtr, file)>>, FALSE)
    ELSE
        AfterSolverProbe(st, file, h, events \o u.events,
                         TryGetSolverDescriptor(file, lib, h, u.heap))

\* The body of the loop of GetAllModelsInDir for the library lib just
\* loaded from file with handle h.
ProbeLoaded(st, file, lib, h) ==
    AfterUnitProbe(st, file, lib, h, st.events \o <<Ev("open", h, NullPtr, file)>>,
                   TryGetUnitDescriptor(file, lib, h, st.heap))

\* The body of the loop of GetAllModelsInDir for the file at index i.
ProbeFile(dir, listing, st, i) ==
    IF ~listing[i].load THEN st
    ELSE ProbeLoaded(st, [dir |-> dir, idx |-> i], listing[i], NewHandle(st.open))

RECURSIVE FilesLoopStopAtBad(_, _, _, _)
\* FilesLoop that gives the scan up at the first file that does not load
FilesLoopStopAtBad(dir, listing, st, i) ==
    IF i > Len(listing) \/ st.threw THEN st
    ELSE IF ~listing[i].load THEN st
    ELSE FilesLoopStopAtBad(dir, listing, ProbeFile(dir, listing, st, i), i + 1)

RECURSIVE FilesLoop(_, _, _, _)
FilesLoop(dir, listing, st, i) ==
    IF i > Len(listing) \/ st.threw THEN st
    ELSE FilesLoop(dir, listing, ProbeFile(dir, listing, st, i), i + 1)

\* CModelsManager::GetAllModelsInDir(_dir)
\* (events: the effects of the call so far)
GetAllModelsInDir(dir, listing, open, heap, events) ==
    FilesLoop(dir, listing,
              Scan(<<>>, <<>>, open, heap,
                   events \o <<Ev("list", 0, NullPtr, [dir |-> dir, idx |-> 0])>>, FALSE),
              1)

\* GetModelsList after the scan of the absolute path returned abs.
RelativeFallback(path, world, abs) ==
    IF abs.threw THEN abs
    ELSE IF abs.units = <<>> /\ abs.solvers = <<>> THEN
        GetAllModelsInDir(ExecutableRelativePath(path), world.rel, abs.open, abs.heap,
                          abs.events)
    ELSE abs

\* CModelsManager::GetModelsList(_dir)
GetModelsList(path, world, open, heap) ==
    RelativeFallback(path, world,
        GetAllModelsInDir(AbsolutePath(path), world.abs, open, heap, <<>>))

\* ------------------------------------------------------------ directories
\* SModelDir{ path, key, active, checked }
ModelDir(path, key, active, checked) ==
    [path |-> path, key |-> key, active |-> active, checked |-> checked]

\* CModelsManager::AllDirsKeys()
AllDirsKeys(dirs) == {dirs[i].key : i \in 1..Len(dirs)}

\* StringFunctions::GenerateUniqueString("", existing): the strings it may
\* return, any key that is not among the existing ones
DirKeys == 1..Cardinality(Paths)
GenerateUniqueString(existing) == DirKeys \ existing

\* IsToDelete without the test of dir.active
IsToDeleteIgnoringActivity(dirs, model) ==
    ~\E i \in 1..Len(dirs) : dirs[i].key = model.dirKey

\* the lambda IsToDelete of UpdateAvailableModels
IsToDelete(dirs, model) ==
    ~\E i \in 1..Len(dirs) : dirs[i].active /\ dirs[i].key = model.dirKey

\* VectorDelete(vec, IsToDelete)
VectorDelete(vec, dirs) == SelectSeq(vec, LAMBDA m : ~IsToDelete(dirs, m))

\* "set directory key to all found models"
SetDirKey(vec, key) == [i \in 1..Len(vec) |-> [vec[i] EXCEPT !.dirKey = key]]

\* The body of the loop "add models from added dirs" once GetModelsList has
\* returned models (or thrown) for the directory at index i.
InsertModels(st, i, models) ==
    IF models.threw THEN
        [st EXCEPT !.open = models.open, !.heap = models.heap,
                   !.events = st.events \o models.events,
                   !.scanned = Append(st.scanned, st.dirs[i].key),
                   !.threw = TRUE]
    ELSE
        [st EXCEPT !.open = models.open, !.heap = models.heap,
                   !.events = st.events \o models.events,
                   !.scanned = Append(st.scanned, st.dirs[i].key),
                   !.units = st.units \o SetDirKey(models.units, st.dirs[i].key),
                   !.solvers = st.solvers \o SetDirKey(models.solvers, st.dirs[i].key),
                   !.dirs[i].checked = TRUE]

\* The body of the loop "add models from added dirs" for the directory at
\* index i. st = [dirs, units, solvers, open, heap, events, threw, scanned]
AddModelsFromDir(st, worlds, i) ==
    IF ~(st.dirs[i].active /\ ~st.dirs[i].checked) THEN st
    ELSE InsertModels(st, i,
                      GetModelsList(st.dirs[i].path, worlds[i], st.open, st.heap))

RECURSIVE DirsLoop(_, _, _)
DirsLoop(st, worlds, i) ==
    IF i > Len(st.dirs) \/ st.threw THEN st
    ELSE DirsLoop(AddModelsFromDir(st, worlds, i), worlds, i + 1)

\* The loop "sort models according to dirs order": a descriptor gets the
\* (0-based) index of the last directory of the list that has its key.
SetPositions(vec, dirs) ==
    [k \in 1..Len(vec) |->
        LET own == {i \in 1..Len(dirs) : dirs[i].key = vec[k].dirKey}
        IN  IF own = {} THEN vec[k]
            ELSE [vec[k] EXCEPT
                    !.position = (CHOOSE i \in own : \A j \in own : j <= i) - 1]]

RECURSIVE StdSort(_)
\* std::sort(vec.begin(), vec.end()): the orders it may leave vec in. The
\* result is ordered by operator<; the order of elements that compare
\* equivalent is unspecified.
StdSort(vec) ==
    IF vec = <<>> THEN {<<>>}
    ELSE LET all == 1..Len(vec)
             least == {i \in all : \A j \in all : ~DescriptorLess(vec[j], vec[i])}
         IN  {a \o b : a \in Arrangements(SelectIdx(vec, least, 1)),
                       b \in StdSort(SelectIdx(vec, all \ least, 1))}

\* the indices of the directories UpdateAvailableModels will scan
ToScan(dirs) == {i \in 1..Len(dirs) : dirs[i].active /\ ~dirs[i].checked}

\* The end of UpdateAvailableModels, "sort models according to dirs order",
\* reached unless an exception left a scan.
SortModels(st) ==
    IF st.threw THEN {st}
    ELSE {[st EXCEPT !.units = u, !.solvers = s] :
            u \in StdSort(SetPositions(st.units, st.dirs)),
            s \in StdSort(SetPositions(st.solvers, st.dirs))}

\* CModelsManager::UpdateAvailableModels(): the states it may leave the
\* registry in. worlds[i] is what the scan of the directory at index i finds.
UpdateAvailableModels(dirs, units, solvers, open, heap, worlds) ==
    SortModels(
        DirsLoop([dirs |-> dirs,
                  units |-> VectorDelete(units, dirs),
                  solvers |-> VectorDelete(solvers, dirs),
                  open |-> open, heap |-> heap, events |-> <<>>,
                  threw |-> FALSE, scanned |-> <<>>],
                 worlds, 1))

\* ------------------------------------------------ instantiation, freeing
\* What happens when Instantiate* works on one matching descriptor:
\*   "loadFail"  LoadDyssolLibrary returns no handle
\*   "noSymbol"  LoadDyssolLibraryConstructor returns no function
\*   "null"      the factory returns nullptr
\*   "ok"        the factory returns an instance
Outcomes == {"loadFail", "noSymbol", "null", "ok"}

\* InstantiateStep without the test "u.uniqueID == _key": every descriptor
\* is taken for the required one
InstantiateStepAnyKey(avail, key, outcome, st, i) ==
    LET file == avail[i].fileLocation
        h == NewHandle(st.open)
        p == NewPtr(st.heap)
        opened == <<Ev("open", h, NullPtr, file)>>
        closed == <<Ev("close", h, NullPtr, file)>>
        seen == [st EXCEPT !.tried = Append(st.tried, i)]
        res == IF i \in DOMAIN outcome THEN outcome[i] ELSE "ok"
    IN  CASE res = "loadFail" -> [seen EXCEPT !.done = TRUE]
          [] res \in {"noSymbol", "null"} ->
               [seen EXCEPT !.events = st.events \o opened \o closed]
          [] OTHER ->
               [seen EXCEPT
                  !.ret = p, !.done = TRUE,
                  !.open = st.open \cup {h},
                  !.heap = st.heap \cup {p},
                  !.loaded = [q \in DOMAIN st.loaded \cup {p} |->
                                IF q = p THEN h ELSE st.loaded[q]],
                  !.events = st.events \o opened
                             \o <<Ev("new", h, p, file), Ev("record", h, p, file)>>]

\* The body of the loop of InstantiateUnit / InstantiateSolver for the
\* descriptor at index i.
\* st = [ret, done, open, heap, loaded, events, tried]
InstantiateStep(avail, key, outcome, st, i) ==
    LET file == avail[i].fileLocation
        h == NewHandle(st.open)
        p == NewPtr(st.heap)
        opened == <<Ev("open", h, NullPtr, file)>>
        closed == <<Ev("close", h, NullPtr, file)>>
        seen == [st EXCEPT !.tried = Append(st.tried, i)]
    IN  IF avail[i].uniqueID # key THEN st
        ELSE CASE outcome[i] = "loadFail" -> [seen EXCEPT !.done = TRUE]
               [] outcome[i] = "noSymbol" ->
                    [seen EXCEPT !.events = st.events \o opened \o closed]
               [] outcome[i] = "null" ->
                    [seen EXCEPT !.events = st.events \o opened \o closed]
               [] OTHER ->
                    [seen EXCEPT
                       !.ret = p, !.done = TRUE,
                       !.open = st.open \cup {h},
                       !.heap = st.heap \cup {p},
                       !.loaded = [q \in DOMAIN st.loaded \cup {p} |->
                                     IF q = p THEN h ELSE st.loaded[q]],
                       !.events = st.events \o opened
                                  \o <<Ev("new", h, p, file), Ev("record", h, p, file)>>]

RECURSIVE InstantiateLoop(_, _, _, _, _)
InstantiateLoop(avail, key, outcome, st, i) ==
    IF i > Len(avail) \/ st.done THEN st
    ELSE InstantiateLoop(avail, key, outcome,
                         InstantiateStep(avail, key, outcome, st, i), i + 1)

Instantiate(avail, key, outcome, open, heap, loaded) ==
    InstantiateLoop(avail, key, outcome,
                    [ret |-> NullPtr, done |-> FALSE, open |-> open, heap |-> heap,
                     loaded |-> loaded, events |-> <<>>, tried |-> <<>>],
                    1)

\* Free with the library closed before the instance is destroyed
FreeCloseFirst(ptr, open, heap, loaded) ==
    IF ptr = NullPtr \/ ptr \notin DOMAIN loaded
    THEN [open |-> open, heap |-> heap, loaded |-> loaded, events |-> <<>>]
    ELSE [open |-> open \ {loaded[ptr]},
          heap |-> heap \ {ptr},
          loaded |-> [q \in DOMAIN loaded \ {ptr} |-> loaded[q]],
          events |-> <<Ev("erase", loaded[ptr], ptr, NoFile),
                       Ev("close", loaded[ptr], NullPtr, NoFile),
                       Ev("delete", loaded[ptr], ptr, NoFile)>>]

\* Free without the test "if such unit exists": the pointer is deleted and
\* the (null) handle closed whether or not the map knows the pointer
FreeUnchecked(ptr, open, heap, loaded) ==
    LET h == IF ptr \in DOMAIN loaded THEN loaded[ptr] ELSE 0
    IN  IF ptr = NullPtr
        THEN [open |-> open, heap |-> heap, loaded |-> loaded, events |-> <<>>]
        ELSE [open |-> open \ {h},
              heap |-> heap \ {ptr},
              loaded |-> [q \in DOMAIN loaded \ {ptr} |-> loaded[q]],
              events |-> <<Ev("erase", h, ptr, NoFile), Ev("delete", h, ptr, NoFile),
                           Ev("close", h, NullPtr, NoFile)>>]

\* CModelsManager::FreeUnit(_unit) / FreeSolver(_solver) on the map loaded
\* st = [open, heap, loaded, events]
Free(ptr, open, heap, loaded) ==
    LET h == loaded[ptr]
        same == [open |-> open, heap |-> heap, loaded |-> loaded, events |-> <<>>]
    IN  IF ptr = NullPtr THEN same
        ELSE IF ptr \notin DOMAIN loaded THEN same
        ELSE [open |-> open \ {h},
              heap |-> heap \ {ptr},
              loaded |-> [q \in DOMAIN loaded \ {ptr} |-> loaded[q]],
              events |-> <<Ev("erase", h, ptr, NoFile), Ev("delete", h, ptr, NoFile),
                           Ev("close", h, NullPtr, NoFile)>>]

\* ------------------------------------------------------------------ state
VARIABLES
    m_dirsList,          \* std::vector<SModelDir>
    m_availableUnits,    \* std::vector<SUnitDescriptor>
    m_availableSolvers,  \* std::vector<SSolverDescriptor>
    m_loadedUnits,       \* std::map<CBaseUnit*, DYSSOL_LIBRARY_INSTANCE>
    m_loadedSolvers,     \* std::map<CExternalSolver*, DYSSOL_LIBRARY_INSTANCE>
    openLibs,            \* the handles the loader has open
    heap,                \* the plugin instances alive
    lastOp,              \* the last call: arguments, result, effects in order
    nCalls,              \* the number of calls made since the initial state
    issued,              \* the pointers Instantiate* has returned so far
    m_parameters,        \* CUnitParametersManager: std::vector<CBaseUnitParameter*>
    m_groups,            \* CUnitParametersManager: group_map_t
    lastParamOp          \* the last call on the parameters manager

vars == <<m_dirsList, m_availableUnits, m_availableSolvers, m_loadedUnits,
          m_loadedSolvers, openLibs, heap, lastOp, nCalls, issued,
          m_parameters, m_groups, lastParamOp>>

\* the state of the models manager and the state of a parameters manager
managerVars == <<m_dirsList, m_availableUnits, m_availableSolvers, m_loadedUnits,
                 m_loadedSolvers, openLibs, heap, lastOp, issued>>
parameterVars == <<m_parameters, m_groups, lastParamOp>>

\* The call just made on the parameters manager: its arguments (type: the
\* kind asked for or added; index, name: the parameter addressed; block,
\* group, list: the arguments of AddParametersToGroup; item: the new
\* selection; time: the time point set or removed; tBeg, tEnd: the interval
\* asked for) and its result (found: a parameter was returned; value: the
\* value returned; times: the time points returned).
ParamCall(op) ==
    [op |-> op, type |-> "UNKNOWN", index |-> 0, name |-> "", block |-> 0,
     group |-> 0, list |-> <<>>, item |-> 0, found |-> FALSE, value |-> 0,
     time |-> 0, tBeg |-> 0, tEnd |-> 0, times |-> <<>>]

\* The call just made. ok: the bool returned (TRUE for a void function);
\* ptr: the pointer passed or returned; threw: an exception left the call;
\* scanned: the keys of the directories scanned; worlds: what was on disk
\* for each of them, by directory key; tried: the indices of the descriptors
\* Instantiate* worked on.
Call(op) ==
    [op |-> op, path |-> "", index |-> 0, active |-> FALSE, key |-> "",
     ptr |-> NullPtr, ok |-> TRUE, threw |-> FALSE, events |-> <<>>,
     scanned |-> <<>>, worlds |-> <<>>, tried |-> <<>>]

\* ------------------------------------------------------------- input sets
\* What a scan may find for a path: the libraries listed under the path
\* taken as absolute and under the path taken relative to the executable.
Worlds ==
    {World(<<>>, <<>>),
     World(<<UnitLib("m1"), UnitAndSolverLib("m2", "s1")>>, <<>>),
     World(<<BadLib, ForeignLib, OldAbiUnitLib("m2"), UnitLib("m1")>>, <<>>),
     World(<<SolverLib("s1", 1), TwoSolversLib("s2", "s3")>>, <<>>),
     World(<<UnitLib("m2"), ThrowingLib>>, <<>>),
     World(<<BadLib>>, <<MixedSolverLib("s2", "s1")>>)}

\* the indices of the descriptors of avail that have the unique ID key
Matching(avail, key) == {i \in 1..Len(avail) : avail[i].uniqueID = key}

\* instances and handles the registry no longer knows
Recorded(lu, ls) == {lu[p] : p \in DOMAIN lu} \cup {ls[p] : p \in DOMAIN ls}
LeakedLibs == openLibs \ Recorded(m_loadedUnits, m_loadedSolvers)
LeakedInstances == heap \ (DOMAIN m_loadedUnits \cup DOMAIN m_loadedSolvers)
LiveCount == Cardinality(DOMAIN m_loadedUnits) + Cardinality(DOMAIN m_loadedSolvers)

\* the pointers the host may pass to Free*
PtrArgs == 0..MaxLive

EmptyMap == [q \in {} |-> 0]

Init ==
    /\ m_dirsList = <<>>
    /\ m_availableUnits = <<>>
    /\ m_availableSolvers = <<>>
    /\ m_loadedUnits = EmptyMap
    /\ m_loadedSolvers = EmptyMap
    /\ openLibs = {}
    /\ heap = {}
    /\ lastOp = Call("Init")
    /\ nCalls = 0
    /\ issued = [units |-> {}, solvers |-> {}]
    /\ m_parameters = <<>>
    /\ m_groups = EmptyMap
    /\ lastParamOp = ParamCall("Init")

\* --------------------------------------------------------------- actions
\* The call of UpdateAvailableModels that ends a directory operation which
\* has just changed the list to dirs.
Update(dirs, call) ==
    \E worlds \in [ToScan(dirs) -> Worlds] :
      \E r \in UpdateAvailableModels(dirs, m_availableUnits, m_availableSolvers,
                                     openLibs, heap, worlds) :
        /\ m_dirsList' = r.dirs
        /\ m_availableUnits' = r.units
        /\ m_availableSolvers' = r.solvers
        /\ openLibs' = r.open
        /\ heap' = r.heap
        /\ lastOp' = [call EXCEPT
                        !.threw = r.threw, !.events = r.events,
                        !.scanned = r.scanned,
                        !.worlds = [k \in Range(r.scanned) |->
                                      worlds[CHOOSE i \in ToScan(dirs) : dirs[i].key = k]]]
        /\ UNCHANGED <<m_loadedUnits, m_loadedSolvers, issued>>

Rejected(call) ==
    /\ lastOp' = [call EXCEPT !.ok = FALSE]
    /\ UNCHANGED <<m_dirsList, m_availableUnits, m_availableSolvers, m_loadedUnits,
                   m_loadedSolvers, openLibs, heap, issued>>

\* AddDir without the test for a path that is already in the list
AddDirUnchecked(path, active) ==
    \E key \in GenerateUniqueString(AllDirsKeys(m_dirsList)) :
        Update(Append(m_dirsList, ModelDir(path, key, active, FALSE)),
               [Call("AddDir") EXCEPT !.path = path, !.active = active])

\* bool CModelsManager::AddDir(_path, _active)
AddDir(path, active) ==
    LET call == [Call("AddDir") EXCEPT !.path = path, !.active = active]
    IN  IF \E i \in 1..Len(m_dirsList) : m_dirsList[i].path = path
        THEN Rejected(call)
        ELSE \E key \in GenerateUniqueString(AllDirsKeys(m_dirsList)) :
               Update(Append(m_dirsList, ModelDir(path, key, active, FALSE)), call)

\* RemoveDir that takes an index past the end for the last directory
RemoveDirClamped(index) ==
    Update(SelectIdx(m_dirsList,
                     (1..Len(m_dirsList)) \ {IF index >= Len(m_dirsList)
                                              THEN Len(m_dirsList) ELSE index + 1}, 1),
           [Call("RemoveDir") EXCEPT !.index = index])

\* bool CModelsManager::RemoveDir(_index); _index is 0-based
RemoveDir(index) ==
    LET call == [Call("RemoveDir") EXCEPT !.index = index]
    IN  IF index >= Len(m_dirsList) THEN Rejected(call)
        ELSE Update(SelectIdx(m_dirsList, (1..Len(m_dirsList)) \ {index + 1}, 1), call)

\* std::iter_swap of the elements at the 1-based indices a and b
IterSwap(s, a, b) == [s EXCEPT ![a] = s[b], ![b] = s[a]]

\* bool CModelsManager::UpDir(_index)
UpDir(index) ==
    LET call == [Call("UpDir") EXCEPT !.index = index]
    IN  IF index >= Len(m_dirsList) \/ index = 0 THEN Rejected(call)
        ELSE Update(IterSwap(m_dirsList, index + 1, index), call)

\* bool CModelsManager::DownDir(_index)
DownDir(index) ==
    LET call == [Call("DownDir") EXCEPT !.index = index]
    IN  IF index >= Len(m_dirsList) \/ index = Len(m_dirsList) - 1 THEN Rejected(call)
        ELSE Update(IterSwap(m_dirsList, index + 1, index + 2), call)

\* void CModelsManager::SetDirActivity(_index, _active)
SetDirActivity(index, active) ==
    LET call == [Call("SetDirActivity") EXCEPT !.index = index, !.active = active]
        i == index + 1
    IN  IF index >= Len(m_dirsList) THEN Rejected(call)
        ELSE Update([m_dirsList EXCEPT
                       ![i].checked = m_dirsList[i].active \/ ~active,
                       ![i].active = active],
                    call)

\* Clear that also forgets the live instances
ClearWithInstances ==
    /\ m_dirsList' = <<>>
    /\ m_availableUnits' = <<>>
    /\ m_availableSolvers' = <<>>
    /\ m_loadedUnits' = EmptyMap
    /\ m_loadedSolvers' = EmptyMap
    /\ lastOp' = Call("Clear")
    /\ UNCHANGED <<openLibs, heap, issued>>

\* void CModelsManager::Clear()
Clear ==
    /\ m_dirsList' = <<>>
    /\ m_availableUnits' = <<>>
    /\ m_availableSolvers' = <<>>
    /\ lastOp' = Call("Clear")
    /\ UNCHANGED <<m_loadedUnits, m_loadedSolvers, openLibs, heap, issued>>

\* CBaseUnit* CModelsManager::InstantiateUnit(_key)
InstantiateUnit(key) ==
    \E outcome \in [Matching(m_availableUnits, key) -> Outcomes] :
      \E r \in {Instantiate(m_availableUnits, key, outcome, openLibs, heap,
                              m_loadedUnits)} :
          /\ m_loadedUnits' = r.loaded
          /\ openLibs' = r.open
          /\ heap' = r.heap
          /\ lastOp' = [Call("InstantiateUnit") EXCEPT
                          !.key = key, !.ptr = r.ret, !.ok = r.ret # NullPtr,
                          !.events = r.events, !.tried = r.tried]
          /\ issued' = [issued EXCEPT !.units = @ \cup ({r.ret} \ {NullPtr})]
          /\ UNCHANGED <<m_dirsList, m_availableUnits, m_availableSolvers,
                         m_loadedSolvers>>
          /\ LiveCount' <= MaxLive

\* CExternalSolver* CModelsManager::InstantiateSolver(_key)
InstantiateSolver(key) ==
    \E outcome \in [Matching(m_availableSolvers, key) -> Outcomes] :
      \E r \in {Instantiate(m_availableSolvers, key, outcome, openLibs, heap,
                              m_loadedSolvers)} :
          /\ m_loadedSolvers' = r.loaded
          /\ openLibs' = r.open
          /\ heap' = r.heap
          /\ lastOp' = [Call("InstantiateSolver") EXCEPT
                          !.key = key, !.ptr = r.ret, !.ok = r.ret # NullPtr,
                          !.events = r.events, !.tried = r.tried]
          /\ issued' = [issued EXCEPT !.solvers = @ \cup ({r.ret} \ {NullPtr})]
          /\ UNCHANGED <<m_dirsList, m_availableUnits, m_availableSolvers,
                         m_loadedUnits>>
          /\ LiveCount' <= MaxLive

\* void CModelsManager::FreeUnit(_unit)
FreeUnit(ptr) ==
    \E r \in {Free(ptr, openLibs, heap, m_loadedUnits)} :
        /\ m_loadedUnits' = r.loaded
        /\ openLibs' = r.open
        /\ heap' = r.heap
        /\ lastOp' = [Call("FreeUnit") EXCEPT !.ptr = ptr, !.events = r.events]
        /\ UNCHANGED <<m_dirsList, m_availableUnits, m_availableSolvers,
                       m_loadedSolvers, issued>>

\* void CModelsManager::FreeSolver(_solver)
FreeSolver(ptr) ==
    \E r \in {Free(ptr, openLibs, heap, m_loadedSolvers)} :
        /\ m_loadedSolvers' = r.loaded
        /\ openLibs' = r.open
        /\ heap' = r.heap
        /\ lastOp' = [Call("FreeSolver") EXCEPT !.ptr = ptr, !.events = r.events]
        /\ UNCHANGED <<m_dirsList, m_availableUnits, m_availableSolvers,
                       m_loadedUnits, issued>>

\* the indices the host may pass: every valid one and the first invalid one
Indices == 0..Cardinality(Paths)

\* the host makes one more call
Called ==
    /\ nCalls < MaxCalls
    /\ nCalls' = nCalls + 1

\* a call on the models manager leaves the parameters manager alone
ManagerCalled == Called /\ UNCHANGED parameterVars

Next ==
    \/ \E path \in Paths, active \in BOOLEAN : ManagerCalled /\ AddDir(path, active)
    \/ \E index \in Indices : ManagerCalled /\ RemoveDir(index)
    \/ \E index \in Indices : ManagerCalled /\ UpDir(index)
    \/ \E index \in Indices : ManagerCalled /\ DownDir(index)
    \/ \E index \in Indices, active \in BOOLEAN : ManagerCalled /\ SetDirActivity(index, active)
    \/ ManagerCalled /\ Clear
    \/ \E key \in ModelKeys : ManagerCalled /\ InstantiateUnit(key)
    \/ \E key \in ModelKeys : ManagerCalled /\ InstantiateSolver(key)
    \/ \E ptr \in PtrArgs : ManagerCalled /\ FreeUnit(ptr)
    \/ \E ptr \in PtrArgs : ManagerCalled /\ FreeSolver(ptr)

Spec == Init /\ [][Next]_vars

\* -------------------------------------------- a registry of three directories
\* What UpdateAvailableModels may leave when AddDir(path, true) is called on
\* the registry prev and the scan of the new directory finds world.
AfterAddDir(prev, path, key, world) ==
    LET dirs == Append(prev.dirs, ModelDir(path, key, TRUE, FALSE))
    IN  UpdateAvailableModels(dirs, prev.units, prev.solvers, prev.open, prev.heap,
                              [i \in ToScan(dirs) |-> world])

\* The registry after AddDir("A", true), AddDir("B", true) and
\* AddDir("C", true): A and B both provide the unit m1, and a factory in C
\* threw, which the host caught.
InitThreeDirs ==
    \E r1 \in AfterAddDir([dirs |-> <<>>, units |-> <<>>, solvers |-> <<>>,
                           open |-> {}, heap |-> {}],
                          "A", 1, World(<<UnitLib("m1"), UnitLib("m2")>>, <<>>)) :
      \E r2 \in AfterAddDir(r1, "B", 2,
                            World(<<BadLib, ForeignLib, OldAbiUnitLib("m2"),
                                    UnitLib("m1")>>, <<>>)) :
        \E r3 \in AfterAddDir(r2, "C", 3, World(<<UnitLib("m2"), ThrowingLib>>, <<>>)) :
          /\ m_dirsList = r3.dirs
          /\ m_availableUnits = r3.units
          /\ m_availableSolvers = r3.solvers
          /\ m_loadedUnits = EmptyMap
          /\ m_loadedSolvers = EmptyMap
          /\ openLibs = r3.open
          /\ heap = r3.heap
          /\ lastOp = [Call("AddDir") EXCEPT
                         !.path = "C", !.active = TRUE, !.threw = r3.threw,
                         !.events = r3.events, !.scanned = r3.scanned,
                         !.worlds = [k \in Range(r3.scanned) |->
                                       World(<<UnitLib("m2"), ThrowingLib>>, <<>>)]]
          /\ nCalls = 0
          /\ issued = [units |-> {}, solvers |-> {}]
          /\ m_parameters = <<>>
          /\ m_groups = EmptyMap
          /\ lastParamOp = ParamCall("Init")

\* the host reorders the three directories, instantiates units and frees them
NextThreeDirs ==
    \/ ManagerCalled /\ \E i \in Indices : UpDir(i)
    \/ ManagerCalled /\ \E i \in Indices : DownDir(i)
    \/ ManagerCalled /\ \E k \in ModelKeys : InstantiateUnit(k)
    \/ ManagerCalled /\ \E p \in PtrArgs : FreeUnit(p)

SpecThreeDirs == InitThreeDirs /\ [][NextThreeDirs]_vars

\* ------------------------------------------------------ parameters manager
\* CUnitParametersManager. Its member functions are declared in
\* UnitParameters.h and defined outside the sources at hand, so what they do
\* is taken from the specification and from the comments of the declarations.

\* enum class EUnitParameter without UNKNOWN: the eight kinds of parameters
EUnitParameter ==
    {"TIME_DEPENDENT", "CONSTANT", "STRING", "CHECKBOX", "SOLVER", "COMBO", "GROUP",
     "COMPOUND"}

\* the names the host uses; names differing only in case are different names
ParamNames == {"a", "A"}
\* the items of a combo or group parameter the host uses
ItemIds == {1, 2}

\* The value of a parameter, or the value a getter returns: a number (Const,
\* TD, and the selected item of Combo and Group), a string (String, Solver,
\* Compound) or a flag (Checkbox); only the part of the kind is meaningful.
Val(num, str, flag) == [num |-> num, str |-> str, flag |-> flag]

\* a parameter: CBaseUnitParameter with the payload of its kind
\* (items: m_items of a Combo or Group, value.num: its m_selected;
\* times: the time points of m_values of a TD parameter)
UnitParameter(type, name, value, items) ==
    [type |-> type, name |-> name, value |-> value, items |-> items, times |-> {}]

\* what a getter returns when it finds no parameter (nullptr)
NoParameter == UnitParameter("UNKNOWN", "", Val(0, "", FALSE), {})

\* the value Get*ParameterValue returns for a missing parameter of the kind
\* (0, "" or false; -1 for a Combo or Group)
DefaultValue(type) ==
    IF type \in {"COMBO", "GROUP"} THEN Val(-1, "", FALSE) ELSE Val(0, "", FALSE)

\* bool IsNameExist(_name)
IsNameExist(params, name) == \E i \in 1..Len(params) : params[i].name = name

\* Add*Parameter without the test of the name
AddParameterUnchecked(params, p) == Append(params, p)

\* what the eight Add*Parameter have in common: p is appended unless a
\* parameter of its name exists
AddParameter(params, p) ==
    IF IsNameExist(params, p.name) THEN params ELSE Append(params, p)

\* GetParameter(_index); _index is 0-based
GetParameter(params, index) ==
    IF index < Len(params) THEN params[index + 1] ELSE NoParameter

\* size_t Name2Index(_name): the index of the parameter of the name, an
\* index no parameter has if there is none
Name2Index(params, name) ==
    IF IsNameExist(params, name)
    THEN (CHOOSE i \in 1..Len(params) : params[i].name = name) - 1
    ELSE Len(params)

\* a typed getter that returns whatever parameter is at the index
TypedParameterOfAnyKind(params, type, index) == GetParameter(params, index)

\* Get<type>Parameter(_index): the parameter at the index if it is of the
\* kind asked for
TypedParameter(params, type, index) ==
    IF GetParameter(params, index).type = type
    THEN GetParameter(params, index) ELSE NoParameter

\* Get<type>ParameterValue(_index)
ParameterValue(params, type, index) ==
    IF TypedParameter(params, type, index) = NoParameter
    THEN DefaultValue(type)
    ELSE TypedParameter(params, type, index).value

\* the group ids parameter p is registered with under block
GroupsOf(groups, p, block) ==
    IF p \in DOMAIN groups
    THEN (IF block \in DOMAIN groups[p] THEN groups[p][block] ELSE <<>>)
    ELSE <<>>

\* void AddToGroup(_parameter, _block, _group)
AddToGroup(groups, p, block, group) ==
    LET old == GroupsOf(groups, p, block)
        new == IF group \in Range(old) THEN old ELSE Append(old, group)
        blocks == IF p \in DOMAIN groups THEN groups[p] ELSE EmptyMap
    IN  [q \in DOMAIN groups \cup {p} |->
            IF q = p
            THEN [b \in DOMAIN blocks \cup {block} |->
                     IF b = block THEN new ELSE blocks[b]]
            ELSE groups[q]]

RECURSIVE AddAllToGroup(_, _, _, _, _)
\* "for each listed parameter: AddToGroup"
AddAllToGroup(groups, list, block, group, i) ==
    IF i > Len(list) THEN groups
    ELSE AddAllToGroup(AddToGroup(groups, list[i], block, group), list, block, group,
                       i + 1)

\* AddParametersToGroup that registers the listed parameters that exist and
\* passes over the others
AddParametersToGroupPartial(params, groups, block, group, list) ==
    IF TypedParameter(params, "GROUP", block) = NoParameter THEN groups
    ELSE IF group \notin TypedParameter(params, "GROUP", block).items THEN groups
    ELSE AddAllToGroup(groups, SelectSeq(list, LAMBDA x : x < Len(params)),
                       block, group, 1)

\* void AddParametersToGroup(_block, _group, _parameters), by indices
AddParametersToGroup(params, groups, block, group, list) ==
    IF TypedParameter(params, "GROUP", block) = NoParameter THEN groups
    ELSE IF group \notin TypedParameter(params, "GROUP", block).items THEN groups
    ELSE IF \E i \in 1..Len(list) : list[i] >= Len(params) THEN groups
    ELSE AddAllToGroup(groups, list, block, group, 1)

\* IsParameterActive that takes every grouped parameter as inactive
IsParameterActiveUngroupedOnly(params, groups, index) == index \notin DOMAIN groups

\* bool IsParameterActive(_index)
IsParameterActive(params, groups, index) ==
    IF index \notin DOMAIN groups THEN TRUE
    ELSE \E block \in DOMAIN groups[index] :
            /\ TypedParameter(params, "GROUP", block) # NoParameter
            /\ TypedParameter(params, "GROUP", block).value.num
                  \in Range(groups[index][block])

RECURSIVE SetToSeq(_)
\* the elements of a set of numbers in increasing order
SetToSeq(S) ==
    IF S = {} THEN <<>>
    ELSE LET least == CHOOSE x \in S : \A y \in S : x <= y
         IN  <<least>> \o SetToSeq(S \ {least})

\* std::vector<double> CTDUnitParameter::GetTimes()
GetTimes(p) == SetToSeq(p.times)

RECURSIVE CollectTimePoints(_, _, _, _)
\* the loop of GetAllTimePoints over the parameters from the i-th on: the
\* time points within [tBeg, tEnd] of each TD parameter, one after another
CollectTimePoints(params, tBeg, tEnd, i) ==
    IF i > Len(params) THEN <<>>
    ELSE (IF params[i].type = "TIME_DEPENDENT"
          THEN SelectSeq(GetTimes(params[i]), LAMBDA t : tBeg <= t /\ t <= tEnd)
          ELSE <<>>)
         \o CollectTimePoints(params, tBeg, tEnd, i + 1)

RECURSIVE SortTimes(_)
\* the sequence of numbers put in non-decreasing order, duplicates kept
SortTimes(seq) ==
    IF seq = <<>> THEN <<>>
    ELSE LET k == CHOOSE i \in 1..Len(seq) : \A j \in 1..Len(seq) : seq[i] <= seq[j]
         IN  <<seq[k]>> \o SortTimes(SelectIdx(seq, (1..Len(seq)) \ {k}, 1))

\* a sorted sequence without its repeated elements
Unique(seq) ==
    SelectIdx(seq, {i \in 1..Len(seq) : i = 1 \/ seq[i] # seq[i - 1]}, 1)

\* GetAllTimePoints that sorts what it collected and removes no duplicate
GetAllTimePointsWithDuplicates(params, tBeg, tEnd) ==
    SortTimes(CollectTimePoints(params, tBeg, tEnd, 1))

\* std::vector<double> GetAllTimePoints(_tBeg, _tEnd)
GetAllTimePoints(params, tBeg, tEnd) ==
    Unique(SortTimes(CollectTimePoints(params, tBeg, tEnd, 1)))

\* --- the calls of the host on the parameters manager
\* one of the Add*Parameter: the parameter p is to be added
Add(p) ==
    /\ m_parameters' = AddParameter(m_parameters, p)
    /\ UNCHANGED m_groups
    /\ lastParamOp' = [ParamCall("Add") EXCEPT !.type = p.type, !.name = p.name]

AddConstParameter(name, value) ==
    Add(UnitParameter("CONSTANT", name, Val(value, "", FALSE), {}))
\* (the value given to the constructor is the value at the time point 0)
AddTDParameter(name, value) ==
    Add([UnitParameter("TIME_DEPENDENT", name, Val(value, "", FALSE), {})
            EXCEPT !.times = {0}])
AddStringParameter(name, value) ==
    Add(UnitParameter("STRING", name, Val(0, value, FALSE), {}))
AddCheckboxParameter(name, value) ==
    Add(UnitParameter("CHECKBOX", name, Val(0, "", value), {}))
AddSolverParameter(name) ==
    Add(UnitParameter("SOLVER", name, Val(0, "key", FALSE), {}))
AddComboParameter(name, itemDefault, items) ==
    Add(UnitParameter("COMBO", name, Val(itemDefault, "", FALSE), items))
AddGroupParameter(name, itemDefault, items) ==
    Add(UnitParameter("GROUP", name, Val(itemDefault, "", FALSE), items))
AddCompoundParameter(name) ==
    Add(UnitParameter("COMPOUND", name, Val(0, "key", FALSE), {}))

\* GetGroupParameter(index)->SetValue(item): the host selects an item of a
\* group parameter
SetValue(index, item) ==
    /\ TypedParameter(m_parameters, "GROUP", index) # NoParameter
    /\ m_parameters' = [m_parameters EXCEPT ![index + 1].value.num = item]
    /\ UNCHANGED m_groups
    /\ lastParamOp' = [ParamCall("SetValue") EXCEPT !.index = index, !.item = item]

\* the parameter at the index is a TD parameter
IsTD(index) == GetParameter(m_parameters, index).type = "TIME_DEPENDENT"

\* GetTDParameter(index)->SetValue(time, value): a time point is added (the
\* value of a time point that exists is changed)
SetTDValue(index, time) ==
    /\ IsTD(index)
    /\ m_parameters' = [m_parameters EXCEPT
                          ![index + 1].times = m_parameters[index + 1].times \cup {time}]
    /\ UNCHANGED m_groups
    /\ lastParamOp' = [ParamCall("SetTDValue") EXCEPT !.index = index, !.time = time]

\* GetTDParameter(index)->RemoveValue(time)
RemoveValue(index, time) ==
    /\ IsTD(index)
    /\ m_parameters' = [m_parameters EXCEPT
                          ![index + 1].times = m_parameters[index + 1].times \ {time}]
    /\ UNCHANGED m_groups
    /\ lastParamOp' = [ParamCall("RemoveValue") EXCEPT !.index = index, !.time = time]

\* the call GetAllTimePoints(tBeg, tEnd)
GetTimePoints(tBeg, tEnd) ==
    /\ UNCHANGED <<m_parameters, m_groups>>
    /\ lastParamOp' = [ParamCall("GetAllTimePoints") EXCEPT
                         !.tBeg = tBeg, !.tEnd = tEnd,
                         !.times = GetAllTimePoints(m_parameters, tBeg, tEnd)]

\* the call AddParametersToGroup(block, group, list)
AddGroupMembers(block, group, list) ==
    /\ m_groups' = AddParametersToGroup(m_parameters, m_groups, block, group, list)
    /\ UNCHANGED m_parameters
    /\ lastParamOp' = [ParamCall("AddParametersToGroup") EXCEPT
                         !.block = block, !.group = group, !.list = list]

\* Get<type>Parameter(index) followed by Get<type>ParameterValue(index)
GetTyped(type, index) ==
    /\ UNCHANGED <<m_parameters, m_groups>>
    /\ lastParamOp' = [ParamCall("Get") EXCEPT
                         !.type = type, !.index = index,
                         !.found = TypedParameter(m_parameters, type, index) # NoParameter,
                         !.value = ParameterValue(m_parameters, type, index)]

\* Get<type>Parameter(name) followed by Get<type>ParameterValue(name)
GetTypedByName(type, name) ==
    /\ UNCHANGED <<m_parameters, m_groups>>
    /\ lastParamOp' = [ParamCall("GetByName") EXCEPT
                         !.type = type, !.name = name,
                         !.index = Name2Index(m_parameters, name),
                         !.found = TypedParameter(m_parameters, type,
                                       Name2Index(m_parameters, name)) # NoParameter,
                         !.value = ParameterValue(m_parameters, type,
                                       Name2Index(m_parameters, name))]

\* the indices the host may pass: every valid one and the first invalid one
ParamIndices == 0..Cardinality(ParamNames)
\* the lists of parameters the host may pass to AddParametersToGroup
ParamLists == {<<0>>, <<1>>, <<0, 1>>, <<1, 2>>, <<2, 1>>}

\* the time points the host uses
Times == {0, 1, 2}

\* a call on the parameters manager leaves the models manager alone
ParametersCalled == Called /\ UNCHANGED managerVars

NextParameters ==
    \/ \E name \in ParamNames : ParametersCalled /\ AddConstParameter(name, 7)
    \/ \E name \in ParamNames : ParametersCalled /\ AddTDParameter(name, 7)
    \/ \E name \in ParamNames : ParametersCalled /\ AddStringParameter(name, "x")
    \/ \E name \in ParamNames : ParametersCalled /\ AddCheckboxParameter(name, TRUE)
    \/ \E name \in ParamNames : ParametersCalled /\ AddSolverParameter(name)
    \/ \E name \in ParamNames, items \in {{1}, ItemIds} :
          ParametersCalled /\ AddComboParameter(name, 1, items)
    \/ \E name \in ParamNames, items \in {{1}, ItemIds} :
          ParametersCalled /\ AddGroupParameter(name, 1, items)
    \/ \E name \in ParamNames : ParametersCalled /\ AddCompoundParameter(name)
    \/ \E index \in ParamIndices, item \in ItemIds :
          ParametersCalled /\ SetValue(index, item)
    \/ \E block \in ParamIndices, group \in ItemIds, list \in ParamLists :
          ParametersCalled /\ AddGroupMembers(block, group, list)
    \/ \E type \in EUnitParameter, index \in ParamIndices :
          ParametersCalled /\ GetTyped(type, index)
    \/ \E type \in EUnitParameter, name \in ParamNames :
          ParametersCalled /\ GetTypedByName(type, name)
    \/ \E index \in ParamIndices, time \in Times :
          ParametersCalled /\ SetTDValue(index, time)
    \/ \E index \in ParamIndices, time \in Times :
          ParametersCalled /\ RemoveValue(index, time)
    \/ \E tBeg \in Times, tEnd \in Times :
          ParametersCalled /\ GetTimePoints(tBeg, tEnd)

SpecParameters == Init /\ [][NextParameters]_vars

\* ================================================================ claims
DirOps == {"AddDir", "RemoveDir", "UpDir", "DownDir", "SetDirActivity", "Clear"}
FreeOps == {"FreeUnit", "FreeSolver"}
InstantiateOps == {"InstantiateUnit", "InstantiateSolver"}

\* the live mapping / the descriptor list an operation named op works on
LoadedOf(op, lu, ls) == IF op \in {"FreeUnit", "InstantiateUnit"} THEN lu ELSE ls
AvailableOf(op) ==
    IF op = "InstantiateUnit" THEN m_availableUnits ELSE m_availableSolvers

\* the descriptors of both lists
AllDescriptors == Range(m_availableUnits) \cup Range(m_availableSolvers)

\* the positions in the effects ev of the events of kind e on instance p
\* (or, for p = NullPtr, on handle h)
EventsOf(ev, e, h, p) ==
    {i \in 1..Len(ev) : ev[i].e = e /\ (IF p = NullPtr THEN ev[i].h = h ELSE ev[i].p = p)}

\* ---------------------------------------------------------------- C1
\* Every live instance is alive and its recorded library handle is open.
C1_RecordedOpen ==
    /\ \A p \in DOMAIN m_loadedUnits : p \in heap /\ m_loadedUnits[p] \in openLibs
    /\ \A p \in DOMAIN m_loadedSolvers : p \in heap /\ m_loadedSolvers[p] \in openLibs

\* A Free* step on a pointer of the live mapping erases the entry, then
\* destroys the instance, then closes the handle recorded for it: one event
\* of each, in that order.
C1_FreeStep ==
    \A ptr \in PtrArgs \ {NullPtr} :
      LET loaded == LoadedOf(lastOp'.op, m_loadedUnits, m_loadedSolvers)
          ev == lastOp'.events
      IN  (lastOp'.op \in FreeOps /\ lastOp'.ptr = ptr /\ ptr \in DOMAIN loaded) =>
            LET erased == EventsOf(ev, "erase", 0, ptr)
                deleted == EventsOf(ev, "delete", 0, ptr)
                closed == EventsOf(ev, "close", loaded[ptr], NullPtr)
            IN  /\ Cardinality(erased) = 1
                /\ Cardinality(deleted) = 1
                /\ Cardinality(closed) = 1
                /\ \A i \in erased, j \in deleted, k \in closed : i < j /\ j < k
                /\ ptr \notin heap'
                /\ loaded[ptr] \notin openLibs'

\* C1: FreeUnit/FreeSolver on an instance of the live mapping removes the
\* mapping entry, destroys the instance and closes the library handle
\* recorded for it, strictly in that order, and in no reachable state is the
\* handle recorded for a live instance closed or the instance destroyed.
C1_FreeOrder == []C1_RecordedOpen /\ [][C1_FreeStep]_vars

\* an instance returned by InstantiateUnit has just been freed
C1_Witness ==
    /\ lastOp.op = "FreeUnit"
    /\ lastOp.ptr \in issued.units
    /\ Len(lastOp.events) = 3
    /\ lastOp.ptr \notin heap

\* ---------------------------------------------------------------- C2
\* C2: FreeUnit/FreeSolver with a null pointer or a pointer that is not in
\* the live mapping (never returned, or already freed) is a no-op: no
\* effect at all, every part of the registry, the open handles and the
\* living instances unchanged.
C2_UnknownFreeStep ==
    LET loaded == LoadedOf(lastOp'.op, m_loadedUnits, m_loadedSolvers)
    IN  (lastOp'.op \in FreeOps
         /\ (lastOp'.ptr = NullPtr \/ lastOp'.ptr \notin DOMAIN loaded)) =>
          /\ lastOp'.events = <<>>
          /\ UNCHANGED <<m_dirsList, m_availableUnits, m_availableSolvers,
                         m_loadedUnits, m_loadedSolvers, openLibs, heap>>

C2_UnknownFreeNoOp == [][C2_UnknownFreeStep]_vars

\* FreeUnit was called a second time on a pointer InstantiateUnit returned
C2_Witness ==
    /\ lastOp.op = "FreeUnit"
    /\ lastOp.ptr \in issued.units
    /\ lastOp.ptr \notin DOMAIN m_loadedUnits
    /\ lastOp.events = <<>>

\* ---------------------------------------------------------------- C3
\* C3: Instantiate* gives up (returns no instance) only after it has worked
\* on every descriptor that has the required key: no failure on one
\* matching descriptor ends the call while others remain untried.
C3_AllMatchingTried ==
    (lastOp.op \in InstantiateOps /\ lastOp.ptr = NullPtr) =>
        Range(lastOp.tried) = Matching(AvailableOf(lastOp.op), lastOp.key)

\* ---------------------------------------------------------------- C4
\* C4: after a call has returned, the open library handles are exactly the
\* handles recorded for the live instances, one handle of its own for each
\* live instance.
C4_OpenAreRecorded ==
    ~lastOp.threw =>
        /\ openLibs = Recorded(m_loadedUnits, m_loadedSolvers)
        /\ Cardinality(openLibs) = LiveCount

\* ---------------------------------------------------------------- C5
C5_UnknownKeyStep ==
    (lastOp'.op \in InstantiateOps
     /\ Matching(AvailableOf(lastOp'.op), lastOp'.key) = {}) =>
        /\ lastOp'.ptr = NullPtr
        /\ lastOp'.events = <<>>
        /\ UNCHANGED <<m_dirsList, m_availableUnits, m_availableSolvers,
                       m_loadedUnits, m_loadedSolvers, openLibs, heap>>

\* C5: Instantiate* with a key that no available descriptor has returns
\* not-found, opens no library, creates no instance and leaves the live
\* mappings (and the rest of the registry) unchanged.
C5_UnknownKeyNoEffect == [][C5_UnknownKeyStep]_vars

\* InstantiateUnit("m1") found no descriptor while a directory that has been
\* scanned is switched off
C5_Witness ==
    /\ lastOp.op = "InstantiateUnit"
    /\ lastOp.key = "m1"
    /\ lastOp.ptr = NullPtr
    /\ Matching(m_availableUnits, "m1") = {}
    /\ \E i \in 1..Len(m_dirsList) : ~m_dirsList[i].active /\ m_dirsList[i].checked

\* ---------------------------------------------------------------- C6
\* C6: every descriptor of the two available lists carries the key of a
\* directory that is in the directory list and active.
C6_DescriptorsOwned ==
    \A d \in AllDescriptors :
        \E i \in 1..Len(m_dirsList) :
            m_dirsList[i].key = d.dirKey /\ m_dirsList[i].active

\* a directory has just been switched off or removed and descriptors of
\* another directory are still listed
C6_Witness ==
    /\ \/ lastOp.op = "SetDirActivity" /\ ~lastOp.active
       \/ lastOp.op = "RemoveDir"
    /\ lastOp.ok
    /\ AllDescriptors # {}

\* ---------------------------------------------------------------- C7
\* the directory operations that end with UpdateAvailableModels
UpdatingOps == DirOps \ {"Clear"}

\* each descriptor of list has the 0-based index of its directory as position
PositionsFollowDirs(list) ==
    \A k \in 1..Len(list) :
        \E i \in 1..Len(m_dirsList) :
            m_dirsList[i].key = list[k].dirKey /\ list[k].position = i - 1

\* list is ordered by non-decreasing position
OrderedByPosition(list) ==
    \A k \in 1..(Len(list) - 1) : list[k].position <= list[k + 1].position

\* C7: after every directory operation that runs UpdateAvailableModels, each
\* descriptor's position is the current list index of its directory and
\* both lists are ordered by non-decreasing position.
C7_OrderedByDirectory ==
    (lastOp.op \in UpdatingOps /\ lastOp.ok) =>
        /\ PositionsFollowDirs(m_availableUnits)
        /\ PositionsFollowDirs(m_availableSolvers)
        /\ OrderedByPosition(m_availableUnits)
        /\ OrderedByPosition(m_availableSolvers)

\* ---------------------------------------------------------------- C8
\* the descriptors of one directory stand in list in the order in which the
\* scan of the directory found their files
InDiscoveryOrder(list) ==
    \A k1, k2 \in 1..Len(list) :
        (k1 < k2 /\ list[k1].dirKey = list[k2].dirKey) =>
            list[k1].fileLocation.idx < list[k2].fileLocation.idx

\* C8: the ordering step of UpdateAvailableModels is stable: descriptors of
\* the same directory stay in the order of their discovery.
C8_DiscoveryOrderKept ==
    InDiscoveryOrder(m_availableUnits) /\ InDiscoveryOrder(m_availableSolvers)

\* ---------------------------------------------------------------- C9
\* the descriptors of list that do not belong to the directory with key
Others(list, key) == SelectSeq(list, LAMBDA d : d.dirKey # key)

C9_DeactivateStep ==
    (/\ lastOp'.op = "SetDirActivity"
     /\ ~lastOp'.active
     /\ Len(m_dirsList) = 2
     /\ lastOp'.index < 2
     /\ \A i \in 1..2 : m_dirsList[i].active /\ m_dirsList[i].checked) =>
        LET A == m_dirsList[lastOp'.index + 1].key
        IN  /\ m_availableUnits' = Others(m_availableUnits, A)
            /\ m_availableSolvers' = Others(m_availableSolvers, A)
            /\ lastOp'.scanned = <<>>

\* C9: with directories A and B both active and scanned,
\* SetDirActivity(A, false) removes exactly A's descriptors, leaves B's
\* descriptors as they were (same descriptors in the same relative order)
\* and scans nothing.
C9_OnlyOwnDescriptorsRemoved == [][C9_DeactivateStep]_vars

\* --------------------------------------------------------------- C10
C10_ActivateStep ==
    (/\ lastOp'.op = "SetDirActivity"
     /\ lastOp'.active
     /\ lastOp'.index < Len(m_dirsList)
     /\ ~m_dirsList[lastOp'.index + 1].active) =>
        LET i == lastOp'.index + 1
        IN  /\ m_dirsList[i].key \in Range(lastOp'.scanned)
            /\ m_dirsList'[i].active
            /\ m_dirsList'[i].checked

\* C10: SetDirActivity(i, true) on a directory that is inactive, whatever
\* its checked flag, scans the directory within the same call and leaves it
\* active and checked.
C10_ActivationScans == [][C10_ActivateStep]_vars

\* --------------------------------------------------------------- C11
C11_ReactivateStep ==
    (/\ lastOp'.op = "SetDirActivity"
     /\ lastOp'.active
     /\ lastOp'.index < Len(m_dirsList)
     /\ m_dirsList[lastOp'.index + 1].active
     /\ m_dirsList[lastOp'.index + 1].checked) =>
        /\ m_dirsList[lastOp'.index + 1].key \notin Range(lastOp'.scanned)
        /\ m_dirsList' = m_dirsList
        /\ m_availableUnits' = m_availableUnits
        /\ m_availableSolvers' = m_availableSolvers

\* C11: SetDirActivity(i, true) on a directory that is already active and
\* checked does not scan the directory again and leaves the directory list
\* and both descriptor lists as they were.
C11_ReactivationIdempotent == [][C11_ReactivateStep]_vars

\* --------------------------------------------------------------- C12
\* C12: no exception raised by plugin code during probing leaves a scan:
\* every directory operation returns normally.
C12_ScanNeverThrows == lastOp.op \in DirOps => ~lastOp.threw

\* --------------------------------------------------------------- C13
\* the resolved directories a call listed
Listed(events) == {e.f.dir : e \in {x \in Range(events) : x.e = "list"}}
\* the libraries a world holds under a resolved directory
ListingOf(w, loc) == IF loc[1] = "abs" THEN w.abs ELSE w.rel
\* a library that yields a unit descriptor / a solver descriptor
ValidUnit(lib) ==
    lib.load /\ lib.unit.sym = "inst" /\ lib.unit.verOK /\ lib.unit.getOK
ValidSolverSlots(lib) ==
    {t \in 1..SOLVERS_TYPES_NUMBER :
        lib.solver[t].sym = "inst" /\ lib.solver[t].verOK /\ lib.solver[t].getOK}
ValidSolver(lib) ==
    lib.load /\ lib.unit.sym = "none" /\ ValidSolverSlots(lib) # {}
\* the directory of the list that has the key k
DirOfKey(k) == m_dirsList[CHOOSE i \in 1..Len(m_dirsList) : m_dirsList[i].key = k]

\* every file of a listed directory was worked on: each loadable library was
\* opened and each valid one has its descriptor in the lists under key k
AllFilesProbed(k, loc, listing) ==
    \A j \in 1..Len(listing) :
        LET file == [dir |-> loc, idx |-> j]
            lib == listing[j]
        IN  /\ lib.load => \E e \in Range(lastOp.events) : e.e = "open" /\ e.f = file
            /\ ValidUnit(lib) =>
                  \E d \in Range(m_availableUnits) :
                      d.fileLocation = file /\ d.dirKey = k /\ d.uniqueID = lib.unit.id
            /\ ValidSolver(lib) =>
                  \E d \in Range(m_availableSolvers) :
                      /\ d.fileLocation = file /\ d.dirKey = k
                      /\ \E t \in ValidSolverSlots(lib) : d.uniqueID = lib.solver[t].id

\* C13: in a scan that no exception leaves, a library that fails to load,
\* exports no factory or is rejected in validation does not end the scan:
\* every other file of the directory is probed, the descriptors of the valid
\* libraries are in the available lists and the directory is checked.
C13_BadLibrarySkipped ==
    (lastOp.op \in UpdatingOps /\ ~lastOp.threw) =>
        \A k \in Range(lastOp.scanned) :
            /\ DirOfKey(k).checked
            /\ \A loc \in Listed(lastOp.events) :
                  loc[2] = DirOfKey(k).path =>
                      AllFilesProbed(k, loc, ListingOf(lastOp.worlds[k], loc))

\* a directory holding an unloadable file, a library without factories and a
\* unit built with another compiler version, followed by the valid unit m1,
\* has been scanned and m1 is listed
C13_Witness ==
    /\ lastOp.op \in UpdatingOps
    /\ ~lastOp.threw
    /\ \E k \in Range(lastOp.scanned) :
          /\ lastOp.worlds[k].abs = <<BadLib, ForeignLib, OldAbiUnitLib("m2"), UnitLib("m1")>>
          /\ DirOfKey(k).checked
          /\ \E d \in Range(m_availableUnits) : d.uniqueID = "m1" /\ d.dirKey = k

\* --------------------------------------------------------------- C14
\* the library the descriptor d was read from in the last call
LibraryOf(d) ==
    ListingOf(lastOp.worlds[d.dirKey], d.fileLocation.dir)[d.fileLocation.idx]

\* C14: a descriptor enters the available lists only for an instance whose
\* compiler version tag equals COMPILER_VERSION: each descriptor a scan has
\* just added was read from a unit factory, or from a solver factory of some
\* type slot, whose instance carries the host's version.
C14_VersionChecked ==
    /\ \A d \in Range(m_availableUnits) :
          d.dirKey \in Range(lastOp.scanned) =>
              LET fac == LibraryOf(d).unit
              IN  fac.sym = "inst" /\ fac.verOK /\ fac.id = d.uniqueID
    /\ \A d \in Range(m_availableSolvers) :
          d.dirKey \in Range(lastOp.scanned) =>
              \E t \in 1..SOLVERS_TYPES_NUMBER :
                  LET fac == LibraryOf(d).solver[t]
                  IN  /\ fac.sym = "inst" /\ fac.verOK
                      /\ fac.id = d.uniqueID /\ fac.type = d.solverType

\* a library whose first solver factory gives an instance of another
\* compiler version has just been scanned and only its valid solver is listed
C14_Witness ==
    \E k \in Range(lastOp.scanned) :
        /\ lastOp.worlds[k].rel = <<MixedSolverLib("s2", "s1")>>
        /\ \E d \in Range(m_availableSolvers) : d.dirKey = k /\ d.uniqueID = "s1"
        /\ \A d \in Range(m_availableSolvers) : d.dirKey = k => d.uniqueID # "s2"

\* --------------------------------------------------------------- C15
\* the descriptors of list that belong to the directory with key, their
\* position set aside
CachedOf(list, key) ==
    {[d EXCEPT !.position = 0] : d \in {x \in Range(list) : x.dirKey = key}}

C15_ReorderStep ==
    lastOp'.op \in {"RemoveDir", "UpDir", "DownDir"} =>
        /\ lastOp'.scanned = <<>>
        /\ \A i \in 1..Len(m_dirsList') :
              m_dirsList'[i].active =>
                  /\ CachedOf(m_availableUnits', m_dirsList'[i].key)
                        = CachedOf(m_availableUnits, m_dirsList'[i].key)
                  /\ CachedOf(m_availableSolvers', m_dirsList'[i].key)
                        = CachedOf(m_availableSolvers, m_dirsList'[i].key)

\* C15: RemoveDir, UpDir and DownDir scan no directory, and the descriptors
\* of every directory that is still active in the list are, position set
\* aside, the same before and after.
C15_ReorderKeepsCache == [][C15_ReorderStep]_vars

\* --------------------------------------------------------------- C16
\* the 1-based index of the directory with the key k
DirIndex(k) == CHOOSE i \in 1..Len(m_dirsList) : m_dirsList[i].key = k

\* C16: when several directories provide the key, Instantiate* first works
\* on the descriptor of the directory with the smallest list index among
\* them, and an instance it returns from that first attempt is built from
\* that descriptor's library.
C16_FirstDirectoryWins ==
    (lastOp.op \in InstantiateOps /\ lastOp.tried # <<>>) =>
        LET avail == AvailableOf(lastOp.op)
            first == avail[lastOp.tried[1]]
        IN  /\ \A j \in Matching(avail, lastOp.key) :
                  DirIndex(first.dirKey) <= DirIndex(avail[j].dirKey)
            /\ (Len(lastOp.tried) = 1 /\ lastOp.ptr # NullPtr) =>
                  \E e \in Range(lastOp.events) :
                      e.e = "new" /\ e.p = lastOp.ptr /\ e.f = first.fileLocation

\* --------------------------------------------------------------- C17
\* the names of the parameters are pairwise distinct
C17_NamesDistinct ==
    \A i, j \in 1..Len(m_parameters) :
        i # j => m_parameters[i].name # m_parameters[j].name

C17_AddStep ==
    /\ (lastParamOp'.op = "Add" /\ IsNameExist(m_parameters, lastParamOp'.name)) =>
          m_parameters' = m_parameters /\ m_groups' = m_groups
    /\ Len(m_parameters') >= Len(m_parameters)
    /\ \A i \in 1..Len(m_parameters) :
          /\ m_parameters'[i].name = m_parameters[i].name
          /\ m_parameters'[i].type = m_parameters[i].type

\* C17: an Add*Parameter of any kind with a name that a parameter already
\* has leaves the parameters and the group map as they were; the names are
\* pairwise distinct in every state and a parameter keeps its index.
C17_DuplicateNameIgnored == []C17_NamesDistinct /\ [][C17_AddStep]_vars

\* with "a" and "A" both in the registry, an Add*Parameter of another kind
\* under an existing name has just been ignored
C17_Witness ==
    /\ lastParamOp.op = "Add"
    /\ Len(m_parameters) = 2
    /\ \E i \in 1..2 :
          /\ m_parameters[i].name = lastParamOp.name
          /\ m_parameters[i].type # lastParamOp.type

\* --------------------------------------------------------------- C18
\* block is a group parameter, group one of its items, and every listed
\* parameter exists
ValidGrouping(block, group, list) ==
    /\ block < Len(m_parameters)
    /\ m_parameters[block + 1].type = "GROUP"
    /\ group \in m_parameters[block + 1].items
    /\ \A i \in 1..Len(list) : list[i] < Len(m_parameters)

\* the group ids each parameter has under each block, their order and
\* number set aside
Registrations(groups) ==
    {<<q, b, g>> \in ParamIndices \X ParamIndices \X (ItemIds \cup {0}) :
        g \in Range(GroupsOf(groups, q, b))}

C18_GroupStep ==
    lastParamOp'.op = "AddParametersToGroup" =>
        LET block == lastParamOp'.block
            group == lastParamOp'.group
            list == lastParamOp'.list
            listed == {<<list[i], block, group>> : i \in 1..Len(list)}
        IN  IF ValidGrouping(block, group, list)
            THEN Registrations(m_groups') = Registrations(m_groups) \cup listed
            ELSE m_groups' = m_groups

\* C18: AddParametersToGroup(block, group, parameters) changes nothing in the
\* group map unless block is a Group parameter, group one of its items and
\* every listed parameter exists; then each listed parameter is registered
\* under (block, group) and nothing else is, so that a repeated call adds no
\* registration.
C18_AllOrNothing == [][C18_GroupStep]_vars

\* a call that lists an existing parameter before a missing one, for a valid
\* block and group, has left the group map empty
C18_Witness ==
    /\ lastParamOp.op = "AddParametersToGroup"
    /\ lastParamOp.list = <<1, 2>>
    /\ Len(m_parameters) = 2
    /\ lastParamOp.block < 2
    /\ m_parameters[lastParamOp.block + 1].type = "GROUP"
    /\ lastParamOp.group \in m_parameters[lastParamOp.block + 1].items
    /\ m_groups = EmptyMap

\* --------------------------------------------------------------- C19
\* the activation rule: P has no entry in the group map, or some block B it
\* is registered under is a Group parameter whose selected item is one of
\* the group ids P has under B
ActiveByRule(params, groups, P) ==
    \/ ~\E r \in Registrations(groups) : r[1] = P
    \/ \E r \in Registrations(groups) :
          /\ r[1] = P
          /\ r[2] < Len(params)
          /\ params[r[2] + 1].type = "GROUP"
          /\ params[r[2] + 1].value.num = r[3]

C19_ActiveIffSelected ==
    \A P \in ParamIndices :
        IsParameterActive(m_parameters, m_groups, P)
            <=> ActiveByRule(m_parameters, m_groups, P)

\* a new selection of the Group parameter at lastParamOp'.index decides at
\* once, with no other call, whether the parameters registered under this
\* block alone are active
C19_SelectStep ==
    lastParamOp'.op = "SetValue" =>
        /\ m_groups' = m_groups
        /\ \A P \in DOMAIN m_groups :
              DOMAIN m_groups[P] = {lastParamOp'.index} =>
                  (IsParameterActive(m_parameters', m_groups', P)
                     <=> lastParamOp'.item \in Range(m_groups[P][lastParamOp'.index]))

\* C19: IsParameterActive(P) is true iff P has no entry in the group map or
\* the Group parameter of some block P is registered under has selected one
\* of P's group ids for that block; it follows the current selection, so a
\* change of the selection alone changes it.
C19_ActivationFollowsSelection == []C19_ActiveIffSelected /\ [][C19_SelectStep]_vars

\* a change of the selection has just made a registered parameter inactive
C19_Witness ==
    /\ lastParamOp.op = "SetValue"
    /\ \E P \in DOMAIN m_groups :
          /\ lastParamOp.index \in DOMAIN m_groups[P]
          /\ ~IsParameterActive(m_parameters, m_groups, P)

\* --------------------------------------------------------------- C20
\* the getter call c on the registry params addresses no parameter of the
\* kind it asks for: the index is not below the count, the name is unknown,
\* or the parameter addressed is of another kind
NothingToGet(params, c) ==
    \/ c.op = "Get" /\ c.index >= Len(params)
    \/ c.op = "GetByName" /\ ~IsNameExist(params, c.name)
    \/ c.op = "Get" /\ c.index < Len(params) /\ params[c.index + 1].type # c.type
    \/ /\ c.op = "GetByName"
       /\ \E i \in 1..Len(params) : params[i].name = c.name /\ params[i].type # c.type

\* v is the default of the kind: 0 for Const and TD, "" for String, Solver
\* and Compound, false for Checkbox, -1 for Combo and Group
IsDefaultOf(type, v) ==
    CASE type \in {"CONSTANT", "TIME_DEPENDENT"} -> v.num = 0
      [] type \in {"STRING", "SOLVER", "COMPOUND"} -> v.str = ""
      [] type = "CHECKBOX" -> v.flag = FALSE
      [] OTHER -> v.num = -1

C20_GetStep ==
    lastParamOp'.op \in {"Get", "GetByName"} =>
        /\ UNCHANGED <<m_parameters, m_groups>>
        /\ IF NothingToGet(m_parameters, lastParamOp')
           THEN ~lastParamOp'.found /\ IsDefaultOf(lastParamOp'.type, lastParamOp'.value)
           ELSE lastParamOp'.found

PointsWithin(params, tBeg, tEnd) ==
    UNION {{t \in params[i].times : tBeg <= t /\ t <= tEnd} :
             i \in {j \in 1..Len(params) : params[j].type = "TIME_DEPENDENT"}}

\* C21: GetAllTimePoints(tBeg, tEnd) returns a strictly increasing sequence
\* whose elements are exactly the time points t, tBeg <= t <= tEnd, of the
\* TD parameters of the registry.
C21_TimePointsSortedUnion ==
    lastParamOp.op = "GetAllTimePoints" =>
        /\ \A i \in 1..(Len(lastParamOp.times) - 1) :
              lastParamOp.times[i] < lastParamOp.times[i + 1]
        /\ Range(lastParamOp.times)
              = PointsWithin(m_parameters, lastParamOp.tBeg, lastParamOp.tEnd)

\* two TD parameters share the time point 0, one has a point outside the
\* interval asked for, and the points of the interval were returned
C21_Witness ==
    /\ lastParamOp.op = "GetAllTimePoints"
    /\ Len(m_parameters) = 2
    /\ \A i \in 1..2 : m_parameters[i].type = "TIME_DEPENDENT" /\ 0 \in m_parameters[i].times
    /\ \E i \in 1..2 : 2 \in m_parameters[i].times
    /\ lastParamOp.tBeg = 0 /\ lastParamOp.tEnd = 1
    /\ lastParamOp.times = <<0>>

\* --------------------------------------------------------------- C22
\* C22: after a directory operation has returned, every directory of the
\* list that is active is also checked.
C22_ActiveAreChecked ==
    (lastOp.op \in DirOps /\ ~lastOp.threw) =>
        \A i \in 1..Len(m_dirsList) : m_dirsList[i].active => m_dirsList[i].checked

\* --------------------------------------------------------------- C23
\* the step is AddDir(path, TRUE) that added the directory with the key k
C23_AddsActive(k) ==
    /\ lastOp'.op = "AddDir" /\ lastOp'.ok /\ lastOp'.active
    /\ k \notin AllDirsKeys(m_dirsList)
    /\ \E i \in 1..Len(m_dirsList') :
          m_dirsList'[i].key = k /\ m_dirsList'[i].path = lastOp'.path

\* the step is SetDirActivity(index, TRUE) on the inactive directory with
\* the key k
C23_Activates(k) ==
    /\ lastOp'.op = "SetDirActivity" /\ lastOp'.ok /\ lastOp'.active
    /\ lastOp'.index < Len(m_dirsList)
    /\ m_dirsList[lastOp'.index + 1].key = k
    /\ ~m_dirsList[lastOp'.index + 1].active

C23_ScanStep ==
    \A k \in Range(lastOp'.scanned) : C23_AddsActive(k) \/ C23_Activates(k)

\* C23: a directory is scanned only inside the AddDir that adds it as active
\* or the SetDirActivity that switches it from inactive to active; no other
\* operation, and no operation on another directory, scans it.
C23_ScannedOncePerActivation == [][C23_ScanStep]_vars

\* --------------------------------------------------------------- C24
\* the number of descriptors of the list that were read from file under key k
DescriptorsFrom(list, k, file) ==
    Cardinality({i \in 1..Len(list) : list[i].dirKey = k /\ list[i].fileLocation = file})

\* the first type slot of the library whose factory gives a valid solver
FirstValidSlot(lib) ==
    CHOOSE t \in ValidSolverSlots(lib) : \A u \in ValidSolverSlots(lib) : t <= u

\* the file j of a scanned directory gave at most one descriptor: a unit
\* and no solver instance if its unit factory is valid, else the solver of
\* its first valid type slot
OneDescriptorOf(k, loc, lib, j) ==
    LET file == [dir |-> loc, idx |-> j]
    IN  /\ DescriptorsFrom(m_availableUnits, k, file)
             + DescriptorsFrom(m_availableSolvers, k, file) <= 1
        /\ ValidUnit(lib) =>
              /\ DescriptorsFrom(m_availableSolvers, k, file) = 0
              /\ Cardinality({i \in 1..Len(lastOp.events) :
                                 lastOp.events[i].e = "new" /\ lastOp.events[i].f = file}) <= 1
        /\ \A d \in Range(m_availableSolvers) :
              (d.dirKey = k /\ d.fileLocation = file) =>
                  /\ ~ValidUnit(lib)
                  /\ ValidSolverSlots(lib) # {}
                  /\ d.uniqueID = lib.solver[FirstValidSlot(lib)].id
                  /\ d.solverType = lib.solver[FirstValidSlot(lib)].type

\* C24: each library a scan loaded gives at most one descriptor; it is tried
\* as a solver only if it gave no unit descriptor, so a library with a valid
\* unit factory and a valid solver factory is listed as a unit only, and a
\* solver library is listed with its first valid solver type in type order.
C24_OneDescriptorPerLibrary ==
    lastOp.op \in UpdatingOps =>
        \A k \in Range(lastOp.scanned) :
            \A loc \in Listed(lastOp.events) :
                loc[2] = DirOfKey(k).path =>
                    \A j \in 1..Len(ListingOf(lastOp.worlds[k], loc)) :
                        OneDescriptorOf(k, loc, ListingOf(lastOp.worlds[k], loc)[j], j)

\* a scan has listed the library with both factories as the unit m2 only,
\* and a library whose first solver factory is rejected is listed under its
\* second solver type
C24_Witness ==
    /\ lastOp.op \in UpdatingOps
    /\ \E k \in Range(lastOp.scanned) :
          /\ lastOp.worlds[k].abs = <<UnitLib("m1"), UnitAndSolverLib("m2", "s1")>>
          /\ \E d \in Range(m_availableUnits) : d.dirKey = k /\ d.uniqueID = "m2"
          /\ ~\E d \in Range(m_availableSolvers) : d.dirKey = k
    /\ \E d \in Range(m_availableSolvers) :
          d.uniqueID = "s1" /\ d.solverType = 2 /\ d.fileLocation.dir[1] = "exe"

\* --------------------------------------------------------------- C25
\* C25: in a scan of a directory the path relative to the executable is
\* listed if and only if no library file was found under the path taken as
\* absolute; a directory whose absolute path holds library files that give
\* no descriptor is not probed again under the relative path.
C25_RelativeOnlyIfNoLibraries ==
    lastOp.op \in UpdatingOps =>
        \A k \in Range(lastOp.scanned) :
            ExecutableRelativePath(DirOfKey(k).path) \in Listed(lastOp.events)
                <=> lastOp.worlds[k].abs = <<>>

\* --------------------------------------------------------------- C26
\* the paths of the list are pairwise distinct, and so are the keys
DistinctDirs(dirs) ==
    \A i, j \in 1..Len(dirs) :
        i # j => (dirs[i].path # dirs[j].path /\ dirs[i].key # dirs[j].key)

\* the step ran no scan and left the directory list and both descriptor
\* lists as they were
NothingScanned ==
    /\ lastOp'.events = <<>> /\ lastOp'.scanned = <<>>
    /\ UNCHANGED <<m_dirsList, m_availableUnits, m_availableSolvers>>

C26_AddStep ==
    /\ DistinctDirs(m_dirsList')
    /\ lastOp'.op = "AddDir" =>
          IF \E i \in 1..Len(m_dirsList) : m_dirsList[i].path = lastOp'.path
          THEN ~lastOp'.ok /\ NothingScanned
          ELSE /\ lastOp'.ok
               /\ Len(m_dirsList') = Len(m_dirsList) + 1
               /\ m_dirsList'[Len(m_dirsList')].path = lastOp'.path
               /\ m_dirsList'[Len(m_dirsList')].key \notin AllDirsKeys(m_dirsList)

\* C26: the directory list always holds pairwise distinct paths and pairwise
\* distinct keys: AddDir with a path of the list returns false, adds no entry,
\* runs no scan and changes no descriptor, and the key of a new entry differs
\* from the key of every directory then in the list.
C26_DistinctPathsAndKeys == [][C26_AddStep]_vars

\* AddDir was refused for a path of a list of two directories, one of which
\* has descriptors
C26_Witness ==
    /\ lastOp.op = "AddDir" /\ ~lastOp.ok
    /\ Len(m_dirsList) = 2
    /\ m_availableUnits # <<>>

\* --------------------------------------------------------------- C27
\* the call of the step has an index that is invalid for the operation
InvalidIndex ==
    \/ lastOp'.op \in {"RemoveDir", "SetDirActivity"} /\ lastOp'.index >= Len(m_dirsList)
    \/ lastOp'.op = "UpDir" /\ (lastOp'.index >= Len(m_dirsList) \/ lastOp'.index = 0)
    \/ lastOp'.op = "DownDir"
          /\ (lastOp'.index >= Len(m_dirsList) \/ lastOp'.index = Len(m_dirsList) - 1)

C27_InvalidIndexStep == InvalidIndex => (~lastOp'.ok /\ NothingScanned)

\* C27: RemoveDir(i) with i >= count, UpDir(i) with i >= count or i = 0,
\* DownDir(i) with i >= count or i = count - 1 and SetDirActivity(i, _) with
\* i >= count return without effect: no scan runs and the directory list, its
\* flags and the descriptor lists are as before.
C27_InvalidIndexNoEffect == [][C27_InvalidIndexStep]_vars

\* RemoveDir was refused for an index past the end of a list that has
\* a directory with descriptors
C27_Witness ==
    /\ lastOp.op = "RemoveDir" /\ ~lastOp.ok
    /\ lastOp.index >= Len(m_dirsList)
    /\ m_dirsList # <<>>
    /\ m_availableUnits # <<>>

\* --------------------------------------------------------------- C28
\* the live instances
LiveInstances == DOMAIN m_loadedUnits \cup DOMAIN m_loadedSolvers

\* a directory operation leaves both live mappings as they are, every live
\* instance alive and every recorded handle open, and has no effect on them
C28_DirStep ==
    lastOp'.op \in DirOps =>
        /\ UNCHANGED <<m_loadedUnits, m_loadedSolvers>>
        /\ LiveInstances \subseteq heap'
        /\ Recorded(m_loadedUnits, m_loadedSolvers) \subseteq openLibs'
        /\ \A e \in Range(lastOp'.events) :
              /\ e.e = "delete" => e.p \notin LiveInstances
              /\ e.e = "close" => e.h \notin Recorded(m_loadedUnits, m_loadedSolvers)

\* Free* on a live instance destroys it and closes its handle, whether or not
\* a descriptor of its library is still listed
C28_FreeStep ==
    LET loaded == LoadedOf(lastOp'.op, m_loadedUnits, m_loadedSolvers)
    IN  (lastOp'.op \in FreeOps /\ lastOp'.ptr \in DOMAIN loaded) =>
            /\ lastOp'.ptr \notin heap'
            /\ loaded[lastOp'.ptr] \notin openLibs'
            /\ lastOp'.ptr \notin DOMAIN m_loadedUnits' \cup DOMAIN m_loadedSolvers'

\* C28: no directory operation changes the live-instance mappings, destroys a
\* live instance or closes a handle recorded for one; an instance created
\* before its directory was deactivated, removed or cleared stays in the
\* mapping, and a later FreeUnit/FreeSolver destroys it and closes its handle.
C28_DirOpsKeepInstances == [][C28_DirStep /\ C28_FreeStep]_vars

\* an instance that outlived the last directory of the registry has just
\* been freed
C28_Witness ==
    /\ lastOp.op = "FreeUnit"
    /\ lastOp.ptr \in issued.units
    /\ Len(lastOp.events) = 3
    /\ m_dirsList = <<>>
    /\ m_availableUnits = <<>>
    /\ lastOp.ptr \notin heap

\* --------------------------------------------------------------- C29
\* the instance constructed by the i-th effect is destroyed later, once, and
\* before the library it was constructed from is closed
ProbeDestroyed(ev, i) ==
    \E j \in (i + 1)..Len(ev) :
        /\ ev[j].e = "delete" /\ ev[j].p = ev[i].p /\ ev[j].f = ev[i].f
        /\ \A k \in (i + 1)..(j - 1) :
              /\ ~(ev[k].e = "close" /\ ev[k].f = ev[i].f)
              /\ ~(ev[k].e = "delete" /\ ev[k].p = ev[i].p)
        /\ \A k \in (j + 1)..Len(ev) :
              (ev[k].e = "delete" /\ ev[k].p = ev[i].p /\ ev[k].f = ev[i].f) =>
                  \E n \in (j + 1)..(k - 1) : ev[n].e = "new" /\ ev[n].p = ev[i].p

\* C29: every instance constructed while a library is probed is destroyed
\* exactly once before the probing handle is closed, on every path, and no
\* instance that is not in the live mappings is left alive.
C29_ProbeInstancesDestroyed ==
    /\ LeakedInstances = {}
    /\ lastOp.op \in UpdatingOps =>
          \A i \in 1..Len(lastOp.events) :
              lastOp.events[i].e = "new" => ProbeDestroyed(lastOp.events, i)

====
